---- MODULE Spec2Model ----
(***************************************************************************)
(* LintX backend (src/backend/main.py): the sandboxed execution pipeline   *)
(* run_in_sandbox, executed by concurrent requests over one shared staging *)
(* root, and the JSON fallback of the feedback and annotate handlers.      *)
(*                                                                         *)
(* Text is modelled as a sequence of parts, so "" is << >> and an f-string *)
(* is the sequence of its pieces.  A file name under sandbox/ is the pair  *)
(* <<stem, extension>>.                                                    *)
(***************************************************************************)
EXTENDS Integers, Sequences, FiniteSets, TLC

\* ---------------------------------------------------------------- bounds
NumReq == 2
MaxResp == 4

Req == 1 .. NumReq

\* ------------------------------------------------------- program constants
CompileTimeout == 10
RunTimeout == 5

\* ------------------------------------------------------------------ inputs
Codes == {<<"a">>, <<"a", "b">>}
Languages == {"python", "javascript", "cpp", "ruby", "Python"}
Streams == {<< >>, <<"text">>}

\* --------------------------------------------------------- LANG_CONFIG
SupportedLanguages == {"python", "javascript", "cpp"}

Ext(lang) ==
  CASE lang = "python" -> ".py"
    [] lang = "javascript" -> ".js"
    [] lang = "cpp" -> ".cpp"

\* "compiler_cmd" in cfg
HasCompilerCmd(lang) == lang = "cpp"

\* the compiler's output file, /home/runner/a.out, in the staging root
AOut == <<"a", ".out">>

ContainerPath(name) == <<"/home/runner/", name[1], name[2]>>

compiler_cmd(f) == << <<"g++">>, ContainerPath(f), <<"-o">>, ContainerPath(AOut) >>

run_cmd(lang, f) ==
  CASE lang = "python" -> << <<"python3">>, ContainerPath(f) >>
    [] lang = "javascript" -> << <<"node">>, ContainerPath(f) >>
    [] lang = "cpp" -> << ContainerPath(AOut) >>

\* the file the run command makes the container execute
RunTarget(lang, f) == IF lang = "cpp" THEN AOut ELSE f

\* uuid.uuid4().hex: a token no other call draws
Uuid4Hex(r) == ToString(r)

\* f"sandbox/{uuid.uuid4().hex}{cfg['ext']}"
Filename(r, lang) == <<Uuid4Hex(r), Ext(lang)>>

\* the prefix of every subprocess.run argument list
DockerPrefix ==
  << <<"docker">>, <<"run">>, <<"--rm">>, <<"-v">>,
     <<"cwd", "/sandbox", ":/home/runner">>, <<"lintx-image">> >>

DockerArgv(cmd) == DockerPrefix \o cmd

TimeoutSentinel == <<"Execution timed out">>

\* a message that does not name the language
UnsupportedMessageGeneric(lang) == <<"Unsupported language: ", "">>

UnsupportedMessage(lang) == <<"Unsupported language: ", lang>>

Range(s) == {s[i] : i \in DOMAIN s}

\* ------------------------------------------------------------------- state
VARIABLES
  pc,          \* position of each request in run_in_sandbox
  language,    \* payload.language
  code,        \* payload.code
  fs,          \* the staging root: file name -> content
  containers,  \* containers the docker daemon is running
  launched,    \* per request, the subprocess.run calls that started a container
  returncode,  \* compile_result.returncode: "none", "zero" or "nonzero"
  output,      \* returned stdout
  error,       \* returned stderr
  captured,    \* the streams subprocess.run last captured for the request
  execd,       \* what the run container executed
  touched,     \* staging paths the request and its containers addressed
  handler,     \* LLM flow: which handler served the request ("none" before it)
  data,        \* LLM flow: payload.code
  response,    \* LLM flow: chain.invoke(...) result
  parsed       \* LLM flow: the handler's return value

llmVars == <<handler, data, response, parsed>>
vars == <<pc, language, code, fs, containers, launched, returncode,
          output, error, captured, execd, touched, handler, data, response, parsed>>

NoStreams == [stdout |-> << >>, stderr |-> << >>]

NoFile == [kind |-> "none", text |-> << >>, by |-> 0]

Exists(name) == name \in DOMAIN fs

\* os.remove(filename) guarded by os.path.exists(filename)
Remove(f, name) == [n \in (DOMAIN f) \ {name} |-> f[n]]

\* what a process finds at a path of the staging root
ReadFile(f, name) == IF name \in DOMAIN f THEN f[name] ELSE NoFile

WriteFile(f, name, content) ==
  [n \in (DOMAIN f) \cup {name} |-> IF n = name THEN content ELSE f[n]]

Init ==
  /\ pc = [r \in Req |-> "idle"]
  /\ language = [r \in Req |-> "none"]
  /\ code = [r \in Req |-> << >>]
  /\ fs = << >>
  /\ containers = {}
  /\ launched = [r \in Req |-> << >>]
  /\ returncode = [r \in Req |-> "none"]
  /\ output = [r \in Req |-> << >>]
  /\ error = [r \in Req |-> << >>]
  /\ captured = [r \in Req |-> NoStreams]
  /\ execd = [r \in Req |-> NoFile]
  /\ touched = [r \in Req |-> {}]
  /\ handler = "none"
  /\ data = << >>
  /\ response = << >>
  /\ parsed = [none |-> TRUE]

\* ------------------------------------------------- run_in_sandbox, by step
Returned == {"done_unsupported", "done_compile_failed", "done_ran", "done_timeout"}

SourceFile(r, c) == [kind |-> "source", text |-> c, by |-> r]

\* what g++ writes to a.out from the source it read
Binary(r, src) == [kind |-> "binary", text |-> src.text, by |-> r]

\* -v {os.getcwd()}/sandbox:/home/runner mounts the whole staging root
StagingRoot == <<"cwd", "/sandbox">>

MountOf(argv) == <<argv[5][1], argv[5][2]>>

\* whether the argument list asks docker for no network
NetworkDisabled(argv) ==
  \/ \E i \in 1 .. (Len(argv) - 1) :
       argv[i] \in {<<"--network">>, <<"--net">>} /\ argv[i + 1] = <<"none">>
  \/ \E i \in 1 .. Len(argv) : argv[i] \in {<<"--network=none">>, <<"--net=none">>}

Container(r, phase, cmd, deadline) ==
  [req |-> r, phase |-> phase, argv |-> DockerArgv(cmd), timeout |-> deadline]

OwnContainer(r, phase) ==
  CHOOSE c \in containers : c.req = r /\ c.phase = phase

\* a cleanup that removes nothing
ReleaseNothing(f, name) == f

\* the finally block
Release(f, name) == IF name \in DOMAIN f THEN Remove(f, name) ELSE f

\* language not in LANG_CONFIG: return "", f"Unsupported language: {language}"
Unsupported(r, c, l) ==
  /\ pc[r] = "idle"
  /\ l \notin SupportedLanguages
  /\ language' = [language EXCEPT ![r] = l]
  /\ code' = [code EXCEPT ![r] = c]
  /\ output' = [output EXCEPT ![r] = << >>]
  /\ error' = [error EXCEPT ![r] = UnsupportedMessage(l)]
  /\ pc' = [pc EXCEPT ![r] = "done_unsupported"]
  /\ UNCHANGED <<fs, containers, launched, returncode, execd, touched>>
  /\ UNCHANGED captured
  /\ UNCHANGED llmVars

\* open(filename, "w") and f.write(code) both succeed
Acquire(r, c, l) ==
  /\ pc[r] = "idle"
  /\ l \in SupportedLanguages
  /\ language' = [language EXCEPT ![r] = l]
  /\ code' = [code EXCEPT ![r] = c]
  /\ fs' = WriteFile(fs, Filename(r, l), SourceFile(r, c))
  /\ touched' = [touched EXCEPT ![r] = @ \cup {Filename(r, l)}]
  /\ pc' = [pc EXCEPT ![r] = "staged"]
  /\ UNCHANGED <<containers, launched, returncode, output, error, execd>>
  /\ UNCHANGED captured
  /\ UNCHANGED llmVars

\* open(filename, "w") raises OSError: nothing was created
OpenFails(r, c, l) ==
  /\ pc[r] = "idle"
  /\ l \in SupportedLanguages
  /\ language' = [language EXCEPT ![r] = l]
  /\ code' = [code EXCEPT ![r] = c]
  /\ touched' = [touched EXCEPT ![r] = @ \cup {Filename(r, l)}]
  /\ pc' = [pc EXCEPT ![r] = "ioerror"]
  /\ UNCHANGED <<fs, containers, launched, returncode, output, error, execd>>
  /\ UNCHANGED captured
  /\ UNCHANGED llmVars

\* what a failed write leaves of the file open() created: the first k parts
PartialFile(r, c, k) == SourceFile(r, SubSeq(c, 1, k))

\* open() created the file, then f.write(code) or the closing flush raises
\* OSError after k parts; the with block is outside the try, so nothing
\* removes the file
WriteFails(r, c, l, k) ==
  /\ pc[r] = "idle"
  /\ l \in SupportedLanguages
  /\ language' = [language EXCEPT ![r] = l]
  /\ code' = [code EXCEPT ![r] = c]
  /\ fs' = WriteFile(fs, Filename(r, l), PartialFile(r, c, k))
  /\ touched' = [touched EXCEPT ![r] = @ \cup {Filename(r, l)}]
  /\ pc' = [pc EXCEPT ![r] = "ioerror"]
  /\ UNCHANGED <<containers, launched, returncode, output, error, execd>>
  /\ UNCHANGED captured
  /\ UNCHANGED llmVars

\* subprocess.run(docker run ... compiler_cmd, timeout=10) starts the container
LaunchCompile(r) ==
  /\ pc[r] = "staged"
  /\ HasCompilerCmd(language[r])
  /\ containers' = containers \cup
       {Container(r, "compile", compiler_cmd(Filename(r, language[r])), CompileTimeout)}
  /\ launched' = [launched EXCEPT ![r] = Append(@, "compile")]
  /\ touched' = [touched EXCEPT ![r] = @ \cup {Filename(r, language[r]), AOut}]
  /\ pc' = [pc EXCEPT ![r] = "compiling"]
  /\ UNCHANGED <<language, code, fs, returncode, output, error, execd>>
  /\ UNCHANGED captured
  /\ UNCHANGED llmVars

\* a run step that does not wait for the compiler's verdict
RunReachedUngated(r) == pc[r] \in {"staged", "compiled"}

\* the precondition under which the run step's subprocess.run is reached
RunReached(r) ==
  \/ pc[r] = "staged" /\ ~HasCompilerCmd(language[r])
  \/ pc[r] = "compiled"

\* subprocess.run itself raises (docker cannot be started): no container,
\* the exception is not TimeoutExpired, finally runs and it propagates
SubprocessRaises(r) ==
  /\ \/ pc[r] = "staged" /\ HasCompilerCmd(language[r])
     \/ RunReached(r)
  /\ fs' = Release(fs, Filename(r, language[r]))
  /\ pc' = [pc EXCEPT ![r] = "raised"]
  /\ UNCHANGED <<language, code, containers, launched, returncode, output,
                 error, execd, touched>>
  /\ UNCHANGED captured
  /\ UNCHANGED llmVars

\* the compiler exits 0 within the deadline: a.out is written, --rm
\* removes the container
CompileSucceeds(r) ==
  /\ pc[r] = "compiling"
  /\ containers' = containers \ {OwnContainer(r, "compile")}
  /\ returncode' = [returncode EXCEPT ![r] = "zero"]
  /\ captured' = [captured EXCEPT ![r] = NoStreams]
  /\ fs' = WriteFile(fs, AOut, Binary(r, ReadFile(fs, Filename(r, language[r]))))
  /\ pc' = [pc EXCEPT ![r] = "compiled"]
  /\ UNCHANGED <<language, code, launched, output, error, execd, touched>>
  /\ UNCHANGED llmVars

\* compile_result.returncode != 0: return "", compile_result.stderr
CompileFails(r, stdout, stderr) ==
  /\ pc[r] = "compiling"
  /\ containers' = containers \ {OwnContainer(r, "compile")}
  /\ returncode' = [returncode EXCEPT ![r] = "nonzero"]
  /\ output' = [output EXCEPT ![r] = << >>]
  /\ error' = [error EXCEPT ![r] = stderr]
  /\ captured' = [captured EXCEPT ![r] = [stdout |-> stdout, stderr |-> stderr]]
  /\ fs' = Release(fs, Filename(r, language[r]))
  /\ pc' = [pc EXCEPT ![r] = "done_compile_failed"]
  /\ UNCHANGED <<language, code, launched, execd, touched>>
  /\ UNCHANGED llmVars

\* what subprocess.run's timeout does to the daemon's containers: it kills
\* and reaps its child, the docker client; the container is not signalled
KillOnTimeout(cs, c) == cs

\* a timeout result that hands back what was captured before expiry
TimeoutOutputPartial(partial) == partial

\* except subprocess.TimeoutExpired: output = "", error = "Execution timed out"
TimeoutOutput(partial) == << >>

TimeoutError(partial) == TimeoutSentinel

\* the compile step exceeds timeout=10
CompileTimesOut(r, partial) ==
  /\ pc[r] = "compiling"
  /\ containers' = KillOnTimeout(containers, OwnContainer(r, "compile"))
  /\ output' = [output EXCEPT ![r] = TimeoutOutput(partial)]
  /\ error' = [error EXCEPT ![r] = TimeoutError(partial)]
  /\ captured' = [captured EXCEPT ![r] = [stdout |-> partial, stderr |-> << >>]]
  /\ fs' = Release(fs, Filename(r, language[r]))
  /\ pc' = [pc EXCEPT ![r] = "done_timeout"]
  /\ UNCHANGED <<language, code, launched, returncode, execd, touched>>
  /\ UNCHANGED llmVars

\* subprocess.run(docker run ... run_cmd, timeout=5) starts the container,
\* which executes the run command's target as it is in the staging root now
LaunchRun(r) ==
  /\ RunReached(r)
  /\ containers' = containers \cup
       {Container(r, "run", run_cmd(language[r], Filename(r, language[r])), RunTimeout)}
  /\ launched' = [launched EXCEPT ![r] = Append(@, "run")]
  /\ execd' = [execd EXCEPT ![r] =
                 ReadFile(fs, RunTarget(language[r], Filename(r, language[r])))]
  /\ touched' = [touched EXCEPT ![r] =
                   @ \cup {RunTarget(language[r], Filename(r, language[r]))}]
  /\ pc' = [pc EXCEPT ![r] = "running"]
  /\ UNCHANGED <<language, code, fs, returncode, output, error>>
  /\ UNCHANGED captured
  /\ UNCHANGED llmVars

\* the program exits within the deadline, with any exit code:
\* output = result.stdout, error = result.stderr
RunExits(r, stdout, stderr) ==
  /\ pc[r] = "running"
  /\ containers' = containers \ {OwnContainer(r, "run")}
  /\ output' = [output EXCEPT ![r] = stdout]
  /\ error' = [error EXCEPT ![r] = stderr]
  /\ captured' = [captured EXCEPT ![r] = [stdout |-> stdout, stderr |-> stderr]]
  /\ fs' = Release(fs, Filename(r, language[r]))
  /\ pc' = [pc EXCEPT ![r] = "done_ran"]
  /\ UNCHANGED <<language, code, launched, returncode, execd, touched>>
  /\ UNCHANGED llmVars

\* the run step exceeds timeout=5
RunTimesOut(r, partial) ==
  /\ pc[r] = "running"
  /\ containers' = KillOnTimeout(containers, OwnContainer(r, "run"))
  /\ output' = [output EXCEPT ![r] = TimeoutOutput(partial)]
  /\ error' = [error EXCEPT ![r] = TimeoutError(partial)]
  /\ captured' = [captured EXCEPT ![r] = [stdout |-> partial, stderr |-> << >>]]
  /\ fs' = Release(fs, Filename(r, language[r]))
  /\ pc' = [pc EXCEPT ![r] = "done_timeout"]
  /\ UNCHANGED <<language, code, launched, returncode, execd, touched>>
  /\ UNCHANGED llmVars

\* a container whose request has already returned ends by itself
OrphanExits(c) ==
  /\ c \in containers
  /\ pc[c.req] = "done_timeout"
  /\ containers' = containers \ {c}
  /\ UNCHANGED <<pc, language, code, fs, launched, returncode, output, error,
                 execd, touched>>
  /\ UNCHANGED captured
  /\ UNCHANGED llmVars

Next ==
  \/ \E r \in Req, c \in Codes, l \in Languages : Unsupported(r, c, l)
  \/ \E r \in Req, c \in Codes, l \in Languages : Acquire(r, c, l)
  \/ \E r \in Req, c \in Codes, l \in Languages : OpenFails(r, c, l)
  \/ \E r \in Req, c \in Codes, l \in Languages :
       \E k \in 0 .. (Len(c) - 1) : WriteFails(r, c, l, k)
  \/ \E r \in Req : LaunchCompile(r)
  \/ \E r \in Req : SubprocessRaises(r)
  \/ \E r \in Req : CompileSucceeds(r)
  \/ \E r \in Req, o \in Streams, e \in Streams : CompileFails(r, o, e)
  \/ \E r \in Req, p \in Streams : CompileTimesOut(r, p)
  \/ \E r \in Req : LaunchRun(r)
  \/ \E r \in Req, o \in Streams, e \in Streams : RunExits(r, o, e)
  \/ \E r \in Req, p \in Streams : RunTimesOut(r, p)
  \/ \E c \in containers : OrphanExits(c)

Spec == Init /\ [][Next]_vars

\* --------------------------------------------- feedback and annotate
\* A response is a sequence of lexical pieces: "{" and "}", "k" for a
\* member name with its colon, "1" for a scalar literal, " " for white
\* space and "x" for any text that is not JSON.
Pieces == {"{", "}", "k", "1", " ", "x"}

RECURSIVE SeqsUpTo(_)
SeqsUpTo(n) ==
  IF n = 0 THEN {<< >>}
  ELSE LET shorter == SeqsUpTo(n - 1)
       IN shorter \cup {Append(t, p) : t \in {u \in shorter : Len(u) = n - 1}, p \in Pieces}

Responses == SeqsUpTo(MaxResp)

\* json.loads skips white space between tokens
RECURSIVE Squeeze(_)
Squeeze(s) ==
  IF s = << >> THEN << >>
  ELSE IF Head(s) = " " THEN Squeeze(Tail(s))
       ELSE <<Head(s)>> \o Squeeze(Tail(s))

\* value := 1 | { } | { k value }
RECURSIVE IsValue(_)
IsValue(t) ==
  \/ t = <<"1">>
  \/ t = <<"{", "}">>
  \/ /\ Len(t) >= 4
     /\ t[1] = "{"
     /\ t[2] = "k"
     /\ t[Len(t)] = "}"
     /\ IsValue(SubSeq(t, 3, Len(t) - 1))

\* json.loads(response) does not raise
Parses(resp) == IsValue(Squeeze(resp))

\* the value json.loads(response) returns
json_loads(resp) == [json |-> Squeeze(resp)]

\* feedback: except: parsed = {"analysis": response, "improved_code": ""}
FeedbackFallback(resp, c) == [analysis |-> resp, improved_code |-> << >>]

\* an annotate fallback that drops the submitted code
AnnotateFallbackEmpty(resp, c) == [issues |-> << >>, improved_code |-> << >>]

\* annotate: except: parsed = {"issues": [], "improved_code": data.code}
AnnotateFallback(resp, c) == [issues |-> << >>, improved_code |-> c]

\* one request is followed from its arrival to the handler's return
Arrived == handler = "none"

\* POST /api/feedback: run_in_sandbox returned (out, err), the chain
\* answered resp
Feedback(c, out, err, resp) ==
  /\ Arrived
  /\ handler' = "feedback"
  /\ data' = c
  /\ response' = resp
  /\ parsed' = IF Parses(resp) THEN json_loads(resp) ELSE FeedbackFallback(resp, c)
  /\ UNCHANGED <<pc, language, code, fs, containers, launched, returncode,
                 output, error, captured, execd, touched>>

\* POST /api/annotate: the chain answered resp
Annotate(c, resp) ==
  /\ Arrived
  /\ handler' = "annotate"
  /\ data' = c
  /\ response' = resp
  /\ parsed' = IF Parses(resp) THEN json_loads(resp) ELSE AnnotateFallback(resp, c)
  /\ UNCHANGED <<pc, language, code, fs, containers, launched, returncode,
                 output, error, captured, execd, touched>>

NextLLM ==
  \/ Arrived /\ \E c \in Codes, o \in Streams, e \in Streams, resp \in Responses :
                  Feedback(c, o, e, resp)
  \/ Arrived /\ \E c \in Codes, resp \in Responses : Annotate(c, resp)

SpecLLM == Init /\ [][NextLLM]_vars

\* ------------------------------------------------------------- properties
\* r is inside run_in_sandbox
InFlight(r) == pc[r] \in {"staged", "compiling", "compiled", "running"}

OwnFile(r) == Filename(r, language[r])

\* C1: once a call with a supported language has ended (normal return,
\* compile-failure return, timeout in either phase, or an exception raised by
\* subprocess.run), the request's staging source file no longer exists.
C1_StagingFileRemoved ==
  \A r \in Req :
    pc[r] \in {"done_compile_failed", "done_ran", "done_timeout", "raised"}
      => ~Exists(OwnFile(r))

\* a run-phase exception after a successful compile, with the file gone
C1_Witness ==
  \E r \in Req :
    /\ pc[r] = "raised"
    /\ returncode[r] = "zero"
    /\ launched[r] = <<"compile">>
    /\ ~Exists(OwnFile(r))

\* C2: no two concurrent requests read, write or execute the same path of
\* the staging root, and the binary a cpp request runs is the one its own
\* compile step produced.
C2_NoSharedPath ==
  /\ \A r1, r2 \in Req :
       (r1 # r2 /\ InFlight(r1) /\ InFlight(r2))
         => touched[r1] \cap touched[r2] = {}
  /\ \A r \in Req : execd[r].kind = "binary" => execd[r].by = r

\* C3: after a timeout result is returned, no container started by that
\* request is still running.
C3_NoContainerAfterTimeout ==
  \A r \in Req :
    pc[r] = "done_timeout" => ~(\E c \in containers : c.req = r)

\* C4: with a compile step, the run step starts only after the request's own
\* compile step has exited with code 0; a non-zero compiler exit returns
\* empty stdout with the captured compiler stderr, never starts the run step
\* and still removes the staging file.
C4_CompileBeforeRun ==
  \A r \in Req :
    /\ ("run" \in Range(launched[r]) /\ HasCompilerCmd(language[r]))
         => /\ launched[r] = <<"compile", "run">>
            /\ returncode[r] = "zero"
            /\ ~(\E c \in containers : c.req = r /\ c.phase = "compile")
    /\ returncode[r] = "nonzero"
         => /\ pc[r] = "done_compile_failed"
            /\ output[r] = << >>
            /\ error[r] = captured[r].stderr
            /\ launched[r] = <<"compile">>
            /\ ~(\E c \in containers : c.req = r)
            /\ ~Exists(OwnFile(r))

\* a compiler failure with diagnostics on stderr and text on stdout
C4_Witness ==
  \E r \in Req :
    /\ pc[r] = "done_compile_failed"
    /\ captured[r].stderr # << >>
    /\ captured[r].stdout # << >>
    /\ \E q \in Req : launched[q] = <<"compile", "run">>

\* C5: a deadline exceeded in the compile phase (10 s) or the run phase (5 s)
\* returns stdout "" and stderr exactly "Execution timed out", whatever was
\* captured before expiry, as a normal return.
C5_TimeoutSentinel ==
  /\ \A r \in Req :
       pc[r] = "done_timeout"
         => output[r] = << >> /\ error[r] = TimeoutSentinel
  /\ \A c \in containers :
       c.timeout = IF c.phase = "compile" THEN 10 ELSE 5

\* a compile-phase and a run-phase timeout, both with partial output
C5_Witness ==
  \E r1, r2 \in Req :
    /\ pc[r1] = "done_timeout" /\ launched[r1] = <<"compile">>
    /\ pc[r2] = "done_timeout" /\ launched[r2] = <<"run">>
    /\ captured[r1].stdout # << >>
    /\ captured[r2].stdout # << >>

\* C6: an unregistered language returns at once with empty stdout and a
\* message naming the language, whatever the code; no staging file is
\* created and no container is started.
C6_UnsupportedLanguage ==
  \A r \in Req :
    (pc[r] # "idle" /\ language[r] \notin SupportedLanguages)
      => /\ pc[r] = "done_unsupported"
         /\ output[r] = << >>
         /\ Len(error[r]) = 2
         /\ error[r][2] = language[r]
         /\ launched[r] = << >>
         /\ touched[r] = {}
         /\ ~(\E n \in DOMAIN fs : fs[n].by = r)
         /\ ~(\E c \in containers : c.req = r)

\* two unsupported requests with different code and different identifiers
C6_Witness ==
  \E r1, r2 \in Req :
    /\ pc[r1] = "done_unsupported" /\ pc[r2] = "done_unsupported"
    /\ language[r1] = "ruby" /\ language[r2] = "Python"
    /\ code[r1] # code[r2]

\* C7: after any call that has returned, the staging root holds nothing that
\* was created on behalf of the request, compiler output included.
C7_NothingLeftBehind ==
  \A r \in Req :
    pc[r] \in Returned
      => ~(\E n \in DOMAIN fs : fs[n].by = r)

\* C8: a failed staging write surfaces an I/O error, starts no container and
\* leaves no empty or partial staging file.
C8_AcquireFailsClosed ==
  \A r \in Req :
    pc[r] = "ioerror"
      => /\ launched[r] = << >>
         /\ ~(\E c \in containers : c.req = r)
         /\ ~Exists(OwnFile(r))

\* C9: every container is disposable (--rm), has networking disabled, and
\* takes its image and mount target from fixed configuration.
C9_IsolatedContainer ==
  \A c \in containers :
    /\ <<"--rm">> \in Range(c.argv)
    /\ NetworkDisabled(c.argv)
    /\ c.argv[6] = <<"lintx-image">>
    /\ MountOf(c.argv) = StagingRoot
    /\ c.argv[5][3] = ":/home/runner"

\* the raw response text is one of the fields of the returned object
ContainsRaw(p, resp) == \E f \in DOMAIN p : p[f] = resp

====
